---- MODULE Spec2Model ----
(***************************************************************************)
(* A model of pyfixest's FormulaParser.py: the formula mini-language       *)
(* parser (FixestFormulaParser.__init__), the switch extraction            *)
(* (_find_sw), the unpacking (_unpack_fml, _check_duplicate_key), the      *)
(* expansion (_pack_to_fml) and the dictionary builders (get_fml_dict,     *)
(* _transform_fml_dict, get_var_dict).                                     *)
(*                                                                         *)
(* A Python str is a sequence of one-character strings, a Python list a    *)
(* sequence, a Python dict a sequence of [k, v] entries in insertion       *)
(* order.  A call that may raise returns [raised, val]: raised is "None"   *)
(* or the exception, val the returned value.                               *)
(***************************************************************************)
EXTENDS Integers, Sequences, FiniteSets, TLC

VARIABLES
    pc,      \* position in the run: "start", then "built" | "failed" | "done"
    input,   \* the argument handed to the operation under study
    ret,     \* [raised, val] of the last pure-function call
    self,    \* the attributes of the FixestFormulaParser object
    last     \* the last method call on the object: [op, iv, raised]

vars == <<pc, input, ret, self, last>>

(***************************************************************************)
(* Python primitives                                                       *)
(***************************************************************************)
\* a local assignment "x = v" followed by code F that reads x: v is
\* evaluated once and F applied to its value
Bind(v, F(_)) == CHOOSE r \in {F(x) : x \in {v}} : TRUE

Min(S) == CHOOSE m \in S : \A n \in S : m <= n

\* s[i:] for a 1-based i
Tail_(s, i) == SubSeq(s, i, Len(s))

\* str.split(c) for a one-character separator c
RECURSIVE split(_, _)
split(s, c) ==
    LET hits == {i \in 1..Len(s) : s[i] = c}
    IN  IF hits = {} THEN <<s>>
        ELSE <<SubSeq(s, 1, Min(hits) - 1)>> \o split(Tail_(s, Min(hits) + 1), c)

\* sep.join(l)
RECURSIVE join(_, _)
join(l, sep) ==
    IF l = <<>> THEN <<>>
    ELSE IF Len(l) = 1 THEN l[1]
    ELSE l[1] \o sep \o join(Tail(l), sep)

\* "".join(fml.split()): every blank removed
strip_ws(s) == SelectSeq(s, LAMBDA ch : ch # " ")

\* re.findall(kw + r"\((.*?)\)", x): the captured groups of the
\* non-overlapping matches, leftmost first, each capture the shortest one
RECURSIVE re_findall(_, _)
re_findall(kw, x) ==
    LET pat       == kw \o <<"(">>
        n         == Len(pat)
        closes(p) == {q \in (p + n)..Len(x) : x[q] = ")"}
        starts    == {p \in 1..(Len(x) - n + 1) :
                        /\ SubSeq(x, p, p + n - 1) = pat
                        /\ closes(p) # {}}
    IN  IF starts = {} THEN <<>>
        ELSE LET p == Min(starts)
                 q == Min(closes(p))
             IN  <<SubSeq(x, p + n, q - 1)>> \o re_findall(kw, Tail_(x, q + 1))

\* dict operations on a sequence of [k, v] entries
HasKey(d, k) == \E j \in 1..Len(d) : d[j].k = k
Get(d, k)    == d[CHOOSE j \in 1..Len(d) : d[j].k = k].v
Put(d, k, v) ==
    IF HasKey(d, k)
    THEN [j \in 1..Len(d) |-> IF d[j].k = k THEN [k |-> k, v |-> v] ELSE d[j]]
    ELSE Append(d, [k |-> k, v |-> v])
Values(d) == [j \in 1..Len(d) |-> d[j].v]

Ok(v)     == [raised |-> "None", val |-> v]
Raise(e)  == [raised |-> e, val |-> <<>>]

(***************************************************************************)
(* _find_sw                                                                *)
(***************************************************************************)
kw_sw   == <<"s", "w">>
kw_csw  == <<"c", "s", "w">>
kw_sw0  == <<"s", "w", "0">>
kw_csw0 == <<"c", "s", "w", "0">>
kw_i    == <<"i">>

_find_sw(x) ==
    LET sw_match   == re_findall(kw_sw, x)
        csw_match  == re_findall(kw_csw, x)
        sw0_match  == re_findall(kw_sw0, x)
        csw0_match == re_findall(kw_csw0, x)
        i_match    == re_findall(kw_i, x)
    IN  IF sw_match # <<>> THEN
            IF csw_match # <<>>
            THEN [varlist |-> split(csw_match[1], ","), sw_type |-> "csw"]
            ELSE [varlist |-> split(sw_match[1], ","), sw_type |-> "sw"]
        ELSE IF sw0_match # <<>> THEN
            IF csw0_match # <<>>
            THEN [varlist |-> split(csw0_match[1], ","), sw_type |-> "csw0"]
            ELSE [varlist |-> split(sw0_match[1], ","), sw_type |-> "sw0"]
        ELSE IF i_match # <<>>
        THEN [varlist |-> split(i_match[1], ","), sw_type |-> "i"]
        ELSE [varlist |-> x, sw_type |-> "None"]

(***************************************************************************)
(* _check_duplicate_key: TRUE when it raises DuplicateKeyError             *)
(***************************************************************************)
check_same_key_only(my_dict, key) == HasKey(my_dict, key)

_check_duplicate_key(my_dict, key) ==
    IF key = "i" /\ HasKey(my_dict, "i") THEN TRUE
    ELSE \E k \in {"sw", "csw", "sw0", "csw0"} : HasKey(my_dict, k)

(***************************************************************************)
(* _unpack_fml                                                             *)
(***************************************************************************)
\* the loop over var_split, res_s being the dict built so far
RECURSIVE unpack_loop(_, _)
unpack_loop(var_split, res_s) ==
    IF var_split = <<>> THEN Ok(res_s)
    ELSE LET var == Head(var_split)
             f   == _find_sw(var)
         IN  IF f.sw_type = "None"
             THEN unpack_loop(Tail(var_split),
                              Put(res_s, "constant",
                                  Append(Get(res_s, "constant"), var)))
             ELSE IF f.sw_type \in {"sw", "sw0", "csw", "csw0", "i"}
             THEN IF _check_duplicate_key(res_s, f.sw_type)
                  THEN Raise("DuplicateKeyError")
                  ELSE unpack_loop(Tail(var_split),
                                   Put(res_s, f.sw_type, f.varlist))
             ELSE Raise("ValueError: Unsupported switch type")

_unpack_fml(x) ==
    unpack_loop(split(x, "+"), <<[k |-> "constant", v |-> <<>>]>>)

(***************************************************************************)
(* _pack_to_fml                                                            *)
(***************************************************************************)
_pack_to_fml(unpacked) ==
    LET constant0 == IF HasKey(unpacked, "constant")
                     THEN Get(unpacked, "constant") ELSE <<>>
        constant  == IF HasKey(unpacked, "i")
                     THEN IF constant0 # <<>>
                          THEN constant0 \o <<join(Get(unpacked, "i"), <<":">>)>>
                          ELSE <<join(Get(unpacked, "i"), <<":">>)>>
                     ELSE constant0
        variable_type ==
            IF HasKey(unpacked, "csw") THEN "csw"
            ELSE IF HasKey(unpacked, "csw0") THEN "csw0"
            ELSE IF HasKey(unpacked, "sw") THEN "sw"
            ELSE IF HasKey(unpacked, "sw0") THEN "sw0"
            ELSE "None"
        variable  == IF variable_type = "None" THEN <<>>
                     ELSE Get(unpacked, variable_type)
        \* "+".join(constant) when the list is not empty, else the falsy []
        const_fml == IF constant # <<>> THEN join(constant, <<"+">>) ELSE <<>>
        variable_fml1 ==
            IF variable # <<>>
            THEN IF variable_type \in {"csw", "csw0"}
                 THEN [j \in 1..Len(variable) |->
                          join(SubSeq(variable, 1, j), <<"+">>)]
                 ELSE variable
            ELSE <<>>
        variable_fml ==
            IF variable # <<>> /\ variable_type \in {"sw0", "csw0"}
            THEN <<<<"0">>>> \o variable_fml1
            ELSE variable_fml1
        kept      == SelectSeq(variable_fml, LAMBDA v : v # <<"0">>)
        joined    == [j \in 1..Len(kept) |-> const_fml \o <<"+">> \o kept[j]]
    IN  IF variable_fml # <<>> THEN
            IF const_fml # <<>>
            THEN IF variable_type \in {"sw0", "csw0"}
                 THEN Ok(<<const_fml>> \o joined)
                 ELSE Ok(joined)
            ELSE Ok(variable_fml)
        ELSE IF const_fml # <<>>
             THEN Ok(<<const_fml>>)
             ELSE Raise("Exception: Not a valid formula provided.")

(***************************************************************************)
(* FixestFormulaParser: the attributes of the object.  An attribute is     *)
(* Unset until assigned, then PyNone or Val(v).                            *)
(***************************************************************************)
Unset  == [tag |-> "unset"]
PyNone == [tag |-> "None"]
Val(v) == [tag |-> "val", v |-> v]

ParsedFields ==
    {"depvars", "covars", "fevars", "endogvars", "instruments", "is_iv",
     "first_stage_covars_list", "covars_first_stage", "depvars_first_stage",
     "ivars", "covars_fml", "fevars_fml", "covars_first_stage_fml"}
DictFields ==
    {"fml_dict", "fml_dict_iv", "fml_dict2", "fml_dict2_iv",
     "var_dict", "var_dict_iv"}

NewObject == [f \in ParsedFields \cup DictFields |-> Unset]

\* the outcome of a method: the exception raised ("None" if none) and the
\* attributes as the call leaves them
Done(s)      == [raised |-> "None", self |-> s]
Failed(e, s) == [raised |-> e, self |-> s]

(***************************************************************************)
(* __init__, lines 47-68: clean up and split the formula                   *)
(***************************************************************************)
init_split(fml0) ==
    LET fml       == strip_ws(fml0)
        fml_split == split(fml, "|")
        first     == split(fml_split[1], "~")
        n         == Len(fml_split)
        has_tilde == \E j \in 1..Len(fml_split[2]) : fml_split[2][j] = "~"
        has_iv    == (n = 2 /\ has_tilde) \/ n = 3
        iv        == split(fml_split[n], "~")
    IN  IF Len(first) # 2 THEN [raised |-> "ValueError: values to unpack"]
        ELSE IF n \in {2, 3} /\ has_iv /\ Len(iv) # 2
        THEN [raised |-> "ValueError: values to unpack"]
        \* no branch assigns fevars, endogvars: line 70 reads endogvars
        ELSE IF n \notin {1, 2, 3} THEN [raised |-> "UnboundLocalError"]
        ELSE [raised      |-> "None",
              depvars     |-> first[1],
              covars      |-> first[2],
              fevars      |-> IF n = 1 \/ (has_iv /\ n = 2) THEN <<"0">>
                              ELSE fml_split[2],
              endogvars   |-> IF has_iv THEN Val(iv[1]) ELSE PyNone,
              instruments |-> IF has_iv THEN Val(iv[2]) ELSE PyNone]

\* lines 70-76: the determinacy check, "None" when it passes
init_determinacy(endogvars, instruments) ==
    IF endogvars # PyNone
    THEN IF Len(endogvars.v) > Len(instruments.v)
         THEN "ValueError: The IV system is underdetermined."
         ELSE IF Len(endogvars.v) < Len(instruments.v)
         THEN "ValueError: The IV system is overdetermined."
         ELSE "None"
    ELSE "None"

\* every token equal to endogvars replaced, not the first only
first_stage_replace_all(covars, endogvars, instruments) ==
    LET l == split(covars, "+")
    IN  IF \A j \in 1..Len(l) : l[j] # endogvars
        THEN Raise("ValueError: not in list")
        ELSE Ok(join([j \in 1..Len(l) |->
                         IF l[j] = endogvars THEN instruments ELSE l[j]], <<"+">>))

\* lines 89-91: the first-stage covariates, endogvars replaced by instruments
first_stage_covars(covars, endogvars, instruments) ==
    LET first_stage_covars_list == split(covars, "+")
        found == {j \in 1..Len(first_stage_covars_list) :
                     first_stage_covars_list[j] = endogvars}
    IN  IF found = {} THEN Raise("ValueError: not in list")
        ELSE Ok(join([first_stage_covars_list EXCEPT ![Min(found)] = instruments],
                     <<"+">>))

\* lines 78-84
init_unpack(p) ==
    LET s1 == [NewObject EXCEPT !.depvars = Val(split(p.depvars, "+"))]
    IN  Bind(_unpack_fml(p.covars), LAMBDA u_cov :
          IF u_cov.raised # "None" THEN Failed(u_cov.raised, s1)
          ELSE Bind(_unpack_fml(p.fevars), LAMBDA u_fe :
            IF u_fe.raised # "None"
            THEN Failed(u_fe.raised, [s1 EXCEPT !.covars = Val(u_cov.val)])
            ELSE Done([s1 EXCEPT !.covars = Val(u_cov.val),
                                 !.fevars = Val(u_fe.val),
                                 !.endogvars = p.endogvars,
                                 !.instruments = p.instruments])))

\* lines 86-97
init_first_stage(s, p) ==
    IF p.instruments # PyNone
    THEN LET s1 == [s EXCEPT !.is_iv = Val(TRUE)]
         IN  Bind(first_stage_covars(p.covars, p.endogvars.v, p.instruments.v),
               LAMBDA fs :
                 IF fs.raised # "None" THEN Failed(fs.raised, s1)
                 ELSE Bind(_unpack_fml(fs.val), LAMBDA u :
                   IF u.raised # "None"
                   THEN Failed(u.raised,
                               [s1 EXCEPT !.first_stage_covars_list = Val(fs.val)])
                   ELSE Done([s1 EXCEPT
                                !.first_stage_covars_list = Val(fs.val),
                                !.covars_first_stage = Val(u.val),
                                !.depvars_first_stage = p.endogvars])))
    ELSE Done([s EXCEPT !.is_iv = Val(FALSE),
                        !.covars_first_stage = PyNone,
                        !.depvars_first_stage = PyNone])

\* the name=value argument split, its name kept in the i sequence
init_ivars_keep_name(s) ==
    IF HasKey(s.covars.v, "i")
    THEN LET i       == Get(s.covars.v, "i")
             i_split == split(i[Len(i)], "=")
         IN  IF Len(i_split) > 1
             THEN [s EXCEPT
                     !.covars = Val(Put(s.covars.v, "i",
                                        [i EXCEPT ![Len(i)] = i_split[1]])),
                     !.ivars  = Val(<<[k |-> Val(i_split[2]),
                                       v |-> [i EXCEPT ![Len(i)] = i_split[1]]]>>)]
             ELSE [s EXCEPT !.ivars = Val(<<[k |-> PyNone, v |-> i]>>)]
    ELSE [s EXCEPT !.ivars = PyNone]

\* lines 99-113: self.ivars is the one-entry dict {ref: ivar_list}
init_ivars(s) ==
    IF HasKey(s.covars.v, "i")
    THEN LET i       == Get(s.covars.v, "i")
             i_split == split(i[Len(i)], "=")
         IN  IF Len(i_split) > 1
             THEN [s EXCEPT
                     !.covars = Val(Put(s.covars.v, "i", SubSeq(i, 1, Len(i) - 1))),
                     !.ivars  = Val(<<[k |-> Val(i_split[2]),
                                       v |-> SubSeq(i, 1, Len(i) - 1)]>>)]
             ELSE [s EXCEPT !.ivars = Val(<<[k |-> PyNone, v |-> i]>>)]
    ELSE [s EXCEPT !.ivars = PyNone]

\* lines 116-122
init_pack(s, p) ==
    Bind(_pack_to_fml(s.covars.v), LAMBDA c :
      IF c.raised # "None" THEN Failed(c.raised, s)
      ELSE Bind(_pack_to_fml(s.fevars.v), LAMBDA f :
        IF f.raised # "None"
        THEN Failed(f.raised, [s EXCEPT !.covars_fml = Val(c.val)])
        ELSE LET s2 == [s EXCEPT !.covars_fml = Val(c.val),
                                 !.fevars_fml = Val(f.val)]
             IN  IF p.instruments # PyNone
                 THEN Bind(_pack_to_fml(s.covars_first_stage.v), LAMBDA g :
                        IF g.raised # "None" THEN Failed(g.raised, s2)
                        ELSE Done([s2 EXCEPT !.covars_first_stage_fml = Val(g.val)]))
                 ELSE Done([s2 EXCEPT !.covars_first_stage_fml = PyNone])))

\* lines 33-122
__init__(fml) ==
    Bind(init_split(fml), LAMBDA p :
      IF p.raised # "None" THEN Failed(p.raised, NewObject)
      ELSE Bind(init_determinacy(p.endogvars, p.instruments), LAMBDA d :
        IF d # "None" THEN Failed(d, NewObject)
        ELSE Bind(init_unpack(p), LAMBDA a :
          IF a.raised # "None" THEN a
          ELSE Bind(init_first_stage(a.self, p), LAMBDA b :
            IF b.raised # "None" THEN b
            ELSE Bind(init_ivars(b.self), LAMBDA c : init_pack(c, p))))))

(***************************************************************************)
(* get_fml_dict, _transform_fml_dict, get_var_dict                         *)
(***************************************************************************)
\* the loop "for x in l: res.append(f(x))" over a list of lists, flattened
RECURSIVE concat(_)
concat(ll) == IF ll = <<>> THEN <<>> ELSE Head(ll) \o concat(Tail(ll))

\* fml_dict[k] = v for every k of keys in turn
RECURSIVE put_all(_, _, _)
put_all(d, keys, v) ==
    IF keys = <<>> THEN d ELSE put_all(Put(d, Head(keys), v), Tail(keys), v)

\* the loops exchanged: covariate variants outer, depvars inner
get_fml_dict_covars_outer(s, iv) ==
    LET covars_fml == IF iv THEN s.covars_first_stage_fml ELSE s.covars_fml
        res == concat([c \in 1..Len(covars_fml.v) |->
                          [d \in 1..Len(s.depvars.v) |->
                              s.depvars.v[d] \o <<"~">> \o covars_fml.v[c]]])
        fml_dict == put_all(<<>>, s.fevars_fml.v, res)
    IN  IF covars_fml = PyNone /\ s.fevars_fml.v # <<>> /\ s.depvars.v # <<>>
        THEN Failed("TypeError", s)
        ELSE IF iv THEN Done([s EXCEPT !.fml_dict_iv = Val(fml_dict)])
        ELSE Done([s EXCEPT !.fml_dict = Val(fml_dict)])

\* the result stored in self.var_dict whatever iv is
get_var_dict_one_slot(s, iv) ==
    LET covars == IF iv THEN s.covars_first_stage ELSE s.covars
        vars_  == s.depvars.v \o concat(Values(covars.v))
    IN  IF covars = PyNone /\ s.fevars_fml.v # <<>>
        THEN Failed("AttributeError", s)
        ELSE Done([s EXCEPT !.var_dict = Val(put_all(<<>>, s.fevars_fml.v, vars_))])

get_fml_dict(s, iv) ==
    LET covars_fml == IF iv THEN s.covars_first_stage_fml ELSE s.covars_fml
        res == concat([d \in 1..Len(s.depvars.v) |->
                          [c \in 1..Len(covars_fml.v) |->
                              s.depvars.v[d] \o <<"~">> \o covars_fml.v[c]]])
        fml_dict == put_all(<<>>, s.fevars_fml.v, res)
    IN  \* "for covar in None" with a fevar and a depvar to loop over
        IF covars_fml = PyNone /\ s.fevars_fml.v # <<>> /\ s.depvars.v # <<>>
        THEN Failed("TypeError", s)
        ELSE IF iv THEN Done([s EXCEPT !.fml_dict_iv = Val(fml_dict)])
        ELSE Done([s EXCEPT !.fml_dict = Val(fml_dict)])

\* lines 178-183 / 190-195: the loop over the formulas stored under one key
RECURSIVE regroup(_, _)
regroup(fmls, d) ==
    IF fmls = <<>> THEN d
    ELSE LET sp      == split(Head(fmls), "~")
             depvars == sp[1]
             covars  == sp[2]
         IN  regroup(Tail(fmls),
                     IF ~HasKey(d, depvars) THEN Put(d, depvars, <<covars>>)
                     ELSE Put(d, depvars, Append(Get(d, depvars), covars)))

_transform_fml_dict(s, iv) ==
    LET src == IF iv THEN s.fml_dict_iv ELSE s.fml_dict
        bad == \E j \in 1..Len(src.v) : \E m \in 1..Len(src.v[j].v) :
                  Len(split(src.v[j].v[m], "~")) # 2
        fml_dict2 == [j \in 1..Len(src.v) |->
                         [k |-> src.v[j].k, v |-> regroup(src.v[j].v, <<>>)]]
    IN  IF src = Unset THEN Failed("AttributeError", s)
        ELSE IF bad THEN Failed("ValueError: values to unpack", s)
        ELSE IF iv THEN Done([s EXCEPT !.fml_dict2_iv = Val(fml_dict2)])
        ELSE Done([s EXCEPT !.fml_dict2 = Val(fml_dict2)])

\* _flatten_list: a str is appended, a list is flattened into the result;
\* nested tells whether the elements of lst are lists (of str) or str
_flatten_list(lst, nested) == IF nested THEN concat(lst) ELSE lst

get_var_dict(s, iv) ==
    LET covars == IF iv THEN s.covars_first_stage ELSE s.covars
        vars_  == _flatten_list(s.depvars.v, FALSE)
                  \o _flatten_list(Values(covars.v), TRUE)
        var_dict == put_all(<<>>, s.fevars_fml.v, vars_)
    IN  \* None.values() with a fevar to loop over
        IF covars = PyNone /\ s.fevars_fml.v # <<>>
        THEN Failed("AttributeError", s)
        ELSE IF iv THEN Done([s EXCEPT !.var_dict_iv = Val(var_dict)])
        ELSE Done([s EXCEPT !.var_dict = Val(var_dict)])

(***************************************************************************)
(* Inputs: variable groups as a user writes them.  A token is a plain name *)
(* or a call kind(arg, ...); tok_str renders it as text.                   *)
(***************************************************************************)
MaxTok   == 3   \* tokens in a group handed to _unpack_fml
MaxConst == 2   \* plain names in a group handed to _pack_to_fml
MaxArgs  == 2   \* arguments of the switch handed to _pack_to_fml

SwitchKinds == {"sw", "sw0", "csw", "csw0"}

kw_of(kind) ==
    CASE kind = "sw"   -> kw_sw
      [] kind = "csw"  -> kw_csw
      [] kind = "sw0"  -> kw_sw0
      [] kind = "csw0" -> kw_csw0
      [] kind = "i"    -> kw_i

NameTok(n)       == [kind |-> "name", args |-> <<n>>]
CallTok(kind, a) == [kind |-> kind, args |-> a]

tok_str(t) ==
    IF t.kind = "name" THEN t.args[1]
    ELSE kw_of(t.kind) \o <<"(">> \o join(t.args, <<",">>) \o <<")">>

group_str(toks) == join([j \in 1..Len(toks) |-> tok_str(toks[j])], <<"+">>)

\* the sequences over S of length lo..hi
SeqsOf(S, lo, hi) == UNION {[1..n -> S] : n \in lo..hi}

\* how many tokens of a group are of one of the kinds K
CountKind(toks, K) == Cardinality({j \in 1..Len(toks) : toks[j].kind \in K})

(***************************************************************************)
(* SpecUnpack: _unpack_fml applied to a group                              *)
(***************************************************************************)
UnpackToks ==
    {NameTok(<<"x">>), NameTok(<<"0">>)}
    \cup {CallTok(k, a) : k \in SwitchKinds \cup {"i"},
                          a \in {<<<<"a">>>>, <<<<"a">>, <<"b">>>>}}

NoCall == [op |-> "None", iv |-> FALSE, raised |-> "None"]

InitUnpack ==
    /\ pc = "start"
    /\ \E toks \in SeqsOf(UnpackToks, 1, MaxTok) :
          input = [toks |-> toks, x |-> group_str(toks)]
    /\ ret = Ok(<<>>)
    /\ self = NewObject
    /\ last = NoCall

Unpack ==
    /\ pc = "start"
    /\ ret' = _unpack_fml(input.x)
    /\ pc' = "done"
    /\ UNCHANGED <<input, self, last>>

NextUnpack == Unpack

SpecUnpack == InitUnpack /\ [][NextUnpack]_vars

(***************************************************************************)
(* SpecPack: _pack_to_fml applied to an unpacked group                     *)
(***************************************************************************)
ConstNames == {<<"x">>, <<"y", "2">>, <<>>}
ArgNames   == {<<"a">>, <<"b", "1">>, <<"0">>}
IArgs      == {<<>>, <<<<"c">>>>, <<<<"c">>, <<"d">>>>}

\* the dict _unpack_fml builds: constant first, then the i and switch keys
Unpacked(constant, i, sw) ==
    <<[k |-> "constant", v |-> constant]>>
    \o (IF i.has THEN <<[k |-> "i", v |-> i.args]>> ELSE <<>>)
    \o (IF sw.kind # "None" THEN <<[k |-> sw.kind, v |-> sw.args]>> ELSE <<>>)

PackInputs ==
    {[constant |-> c, i |-> i, sw |-> s] :
        c \in SeqsOf(ConstNames, 0, MaxConst),
        i \in {[has |-> FALSE, args |-> <<>>]}
              \cup {[has |-> TRUE, args |-> a] : a \in IArgs},
        s \in {[kind |-> "None", args |-> <<>>]}
              \cup {[kind |-> k, args |-> a] :
                       k \in SwitchKinds, a \in SeqsOf(ArgNames, 1, MaxArgs)}}

InitPack ==
    /\ pc = "start"
    /\ input \in PackInputs
    /\ ret = Ok(<<>>)
    /\ self = NewObject
    /\ last = NoCall

Pack ==
    /\ pc = "start"
    /\ ret' = _pack_to_fml(Unpacked(input.constant, input.i, input.sw))
    /\ pc' = "done"
    /\ UNCHANGED <<input, self, last>>

NextPack == Pack

SpecPack == InitPack /\ [][NextPack]_vars

(***************************************************************************)
(* Spec: a FixestFormulaParser is constructed from a formula, then its     *)
(* dictionary builders are called in any order, with any iv                *)
(***************************************************************************)
MaxCov   == 2   \* tokens of the covariate group
MaxExtra == 2   \* "|" segments written after the fevars and IV segments

CovToks ==
    {NameTok(<<"x">>), NameTok(<<"a", "b">>),
     CallTok("csw", <<<<"a">>, <<"b">>>>),
     CallTok("i", <<<<"c">>, <<"d">>>>),
     CallTok("i", <<<<"c">>, <<"d", "=", "1">>>>)}
DepOpts == {<<<<"Y">>>>, <<<<"Y">>, <<"W">>>>, <<<<"Y">>, <<"Y">>>>}
FeOpts  == {<<>>, <<CallTok("sw0", <<<<"f">>, <<"g">>>>)>>}
EndogOpts == {<<<<"x">>>>, <<<<"a", "b">>>>, <<<<"a">>>>, <<<<"x">>, <<"a", "b">>>>}
InstrOpts == {<<<<"z">>>>, <<<<"z", "w">>>>, <<<<"z">>, <<"w">>>>}
IvOpts ==
    {[has |-> FALSE, endog |-> <<>>, instr |-> <<>>]}
    \cup {[has |-> TRUE, endog |-> e, instr |-> z] :
             e \in EndogOpts, z \in InstrOpts}

RECURSIVE repeat(_, _)
repeat(s, n) == IF n = 0 THEN <<>> ELSE s \o repeat(s, n - 1)

\* the formula as text: "Y + W ~ covars|fevars | endog~instr|q|q"
formula_str(dep, cov, fe, iv, extra) ==
    join(dep, <<" ", "+", " ">>) \o <<" ", "~", " ">> \o group_str(cov)
    \o (IF fe # <<>> THEN <<"|">> \o group_str(fe) ELSE <<>>)
    \o (IF iv.has
        THEN <<" ", "|", " ">> \o join(iv.endog, <<"+">>) \o <<"~">>
             \o join(iv.instr, <<"+">>)
        ELSE <<>>)
    \o repeat(<<"|", "q">>, extra)

Init ==
    /\ pc = "start"
    /\ \E dep \in DepOpts, cov \in SeqsOf(CovToks, 1, MaxCov), fe \in FeOpts,
          iv \in IvOpts, extra \in 0..MaxExtra :
          input = [dep |-> dep, cov |-> cov, fe |-> fe, iv |-> iv,
                   extra |-> extra,
                   fml |-> formula_str(dep, cov, fe, iv, extra)]
    /\ ret = Ok(<<>>)
    /\ self = NewObject
    /\ last = NoCall

\* FixestFormulaParser(fml): an exception leaves no object to call
Construct ==
    /\ pc = "start"
    /\ \E r \in {__init__(input.fml)} :
           /\ self' = r.self
           /\ last' = [op |-> "__init__", iv |-> FALSE, raised |-> r.raised]
           /\ pc' = IF r.raised = "None" THEN "built" ELSE "failed"
    /\ UNCHANGED <<input, ret>>

GetFmlDict ==
    /\ pc = "built"
    /\ \E iv \in BOOLEAN :
          \E r \in {get_fml_dict(self, iv)} :
              /\ self' = r.self
              /\ last' = [op |-> "get_fml_dict", iv |-> iv, raised |-> r.raised]
    /\ UNCHANGED <<pc, input, ret>>

TransformFmlDict ==
    /\ pc = "built"
    /\ \E iv \in BOOLEAN :
          \E r \in {_transform_fml_dict(self, iv)} :
              /\ self' = r.self
              /\ last' = [op |-> "_transform_fml_dict", iv |-> iv,
                          raised |-> r.raised]
    /\ UNCHANGED <<pc, input, ret>>

GetVarDict ==
    /\ pc = "built"
    /\ \E iv \in BOOLEAN :
          \E r \in {get_var_dict(self, iv)} :
              /\ self' = r.self
              /\ last' = [op |-> "get_var_dict", iv |-> iv, raised |-> r.raised]
    /\ UNCHANGED <<pc, input, ret>>

Next == Construct \/ GetFmlDict \/ TransformFmlDict \/ GetVarDict

Spec == Init /\ [][Next]_vars

(***************************************************************************)
(* What the expansion of a group is said to be, computed from the group    *)
(* as written (not from _pack_to_fml)                                      *)
(***************************************************************************)
\* the constant part: the plain names, then the colon-joined i arguments
ConstPart(constant, i) ==
    join(constant \o (IF i.has THEN <<join(i.args, <<":">>)>> ELSE <<>>),
         <<"+">>)

WithConst(cp, part) == IF cp = <<>> THEN part ELSE cp \o <<"+">> \o part

ArgPart(kind, args, k) ==
    IF kind \in {"csw", "csw0"} THEN join(SubSeq(args, 1, k), <<"+">>)
    ELSE args[k]

SwitchVariants(cp, kind, args) ==
    [k \in 1..Len(args) |-> WithConst(cp, ArgPart(kind, args, k))]

BaseKind(kind) == IF kind = "sw0" THEN "sw" ELSE IF kind = "csw0" THEN "csw" ELSE kind

\* C1: a group with an sw or csw family of n >= 1 arguments expands to
\* exactly n variants in argument order: the constant part followed by the
\* first k arguments (csw) or by the k-th argument alone (sw), and the
\* argument part alone when the constant part is empty, whatever the
\* argument names.
C1_SwitchVariants ==
    (pc = "done" /\ input.sw.kind \in {"sw", "csw"})
    => ret = Ok(SwitchVariants(ConstPart(input.constant, input.i),
                               input.sw.kind, input.sw.args))

\* C2: a group with an sw0 or csw0 family of n >= 1 arguments expands to
\* exactly n+1 variants: first the sentinel (the constant part alone, or "0"
\* when the constant part is empty), then in order the n variants that sw
\* (csw) emits for the same arguments and constant part.
C2_SentinelVariants ==
    (pc = "done" /\ input.sw.kind \in {"sw0", "csw0"})
    => LET cp   == ConstPart(input.constant, input.i)
           base == _pack_to_fml(Unpacked(input.constant, input.i,
                                  [kind |-> BaseKind(input.sw.kind),
                                   args |-> input.sw.args]))
       IN  /\ ret.raised = "None"
           /\ Len(ret.val) = Len(input.sw.args) + 1
           /\ ret.val[1] = (IF cp # <<>> THEN cp ELSE <<"0">>)
           /\ Tail(ret.val) = base.val

\* the entries of an unpacked group whose key is one of K
CountKeys(d, K) == Cardinality({j \in 1..Len(d) : d[j].k \in K})

C7_SwitchAndInteraction ==
    (/\ pc = "done"
     /\ CountKind(input.toks, SwitchKinds) = 1
     /\ CountKind(input.toks, {"i"}) = 1)
    => LET st == input.toks[CHOOSE j \in 1..Len(input.toks) :
                                input.toks[j].kind \in SwitchKinds]
           it == input.toks[CHOOSE j \in 1..Len(input.toks) :
                                input.toks[j].kind = "i"]
           p  == _pack_to_fml(ret.val)
       IN  /\ ret.raised = "None"
           /\ HasKey(ret.val, st.kind)
           /\ HasKey(ret.val, "i")
           /\ p.raised = "None"
           /\ \A j \in 1..Len(p.val) :
                 \E m \in 1..Len(split(p.val[j], "+")) :
                    split(p.val[j], "+")[m] = join(it.args, <<":">>)

(***************************************************************************)
(* Claims about the constructed object                                     *)
(***************************************************************************)
\* the exception __init__ raised ("None" when the object was built)
InitRaised == IF pc = "failed" THEN last.raised ELSE "None"

\* the "|"-segments of the formula as written
NSegments ==
    1 + (IF input.fe # <<>> THEN 1 ELSE 0) + (IF input.iv.has THEN 1 ELSE 0)
      + input.extra

Underdetermined == "ValueError: The IV system is underdetermined."
Overdetermined  == "ValueError: The IV system is overdetermined."
NotFound        == "ValueError: not in list"
InvalidSyntax   == "Exception: Not a valid formula provided."

\* a well-formed formula with an IV block
HasIvBlock == pc # "start" /\ input.iv.has /\ input.extra = 0

\* C8: a formula of more than three "|"-segments fails at construction with
\* the invalid-formula error, and no attribute of the object is assigned.
C8_SegmentCount ==
    (pc # "start" /\ NSegments \notin {1, 2, 3})
    => /\ pc = "failed"
       /\ last.raised = InvalidSyntax
       /\ self = NewObject

\* C4: with an IV block, the determinacy check passes iff both sides hold
\* the same number of "+"-delimited names, whatever their lengths; fewer
\* instruments is the underdetermined error, more the overdetermined one.
C4_Determinacy ==
    HasIvBlock
    => LET ne == Len(input.iv.endog)
           ni == Len(input.iv.instr)
       IN  /\ (InitRaised \notin {Underdetermined, Overdetermined}) <=> (ne = ni)
           /\ ni < ne => InitRaised = Underdetermined
           /\ ni > ne => InitRaised = Overdetermined

\* the covariate tokens as written, the positions of those equal to the
\* endogenous variable, and the group with the first of them replaced
CovStrs  == [j \in 1..Len(input.cov) |-> tok_str(input.cov[j])]
EndogStr == join(input.iv.endog, <<"+">>)
InstrStr == join(input.iv.instr, <<"+">>)
EndogAt  == {j \in 1..Len(input.cov) : CovStrs[j] = EndogStr}
Substituted ==
    join([j \in 1..Len(input.cov) |->
             IF j = Min(EndogAt) THEN InstrStr ELSE CovStrs[j]], <<"+">>)
Expansion(group) == _pack_to_fml(_unpack_fml(group).val).val

PassesDeterminacy ==
    HasIvBlock /\ InitRaised \notin {Underdetermined, Overdetermined}

\* C5 as stated: past the determinacy check, if the endogenous variable is a
\* whole token of the covariate group, covars_first_stage_fml is the
\* expansion of the group with that token replaced by the instrument;
\* otherwise construction fails with the variable-not-found error.
C5_FirstStageOriginal ==
    PassesDeterminacy
    => IF EndogAt # {}
       THEN pc = "built"
            => self.covars_first_stage_fml = Val(Expansion(Substituted))
       ELSE pc = "failed" /\ last.raised = NotFound

\* the covariate or fixed-effect group does not unpack
GroupRejected ==
    \/ _unpack_fml(group_str(input.cov)).raised # "None"
    \/ (input.fe # <<>> /\ _unpack_fml(group_str(input.fe)).raised # "None")

\* C5 (amended): as C5, the token replaced being the first that equals the
\* endogenous variable; when there is none construction fails, with the
\* duplicate-key error if the covariate or fixed-effect group does not
\* unpack (that is raised first) and with the variable-not-found error
\* otherwise.
C5_FirstStage ==
    PassesDeterminacy
    => IF EndogAt # {}
       THEN pc = "built"
            => self.covars_first_stage_fml = Val(Expansion(Substituted))
       ELSE /\ pc = "failed"
            /\ last.raised = (IF GroupRejected THEN "DuplicateKeyError"
                              ELSE NotFound)

\* the endogenous variable as the second token, after a switch: a first
\* stage of several variants, each with the instrument in its place
C5_Witness ==
    /\ PassesDeterminacy
    /\ pc = "built"
    /\ EndogAt # {}
    /\ Min(EndogAt) = 2
    /\ Len(self.covars_first_stage_fml.v) >= 2
    /\ self.covars_first_stage_fml.v # self.covars_fml.v

\* the i(...) token of the covariate group, and its last argument at "="
HasI     == \E j \in 1..Len(input.cov) : input.cov[j].kind = "i"
IArgsIn  == input.cov[CHOOSE j \in 1..Len(input.cov) : input.cov[j].kind = "i"].args
ILast    == split(IArgsIn[Len(IArgsIn)], "=")
IsToken(tok, variant) ==
    \E m \in 1..Len(split(variant, "+")) : split(variant, "+")[m] = tok
\* the i sequence the object holds, its reference, and the variants
IHolds(iseq, ref) ==
    /\ Get(self.covars.v, "i") = iseq
    /\ Len(self.ivars.v) = 1
    /\ self.ivars.v[1].k = ref
    /\ join(iseq, <<":">>) # <<>>
       => \A j \in 1..Len(self.covars_fml.v) :
             IsToken(join(iseq, <<":">>), self.covars_fml.v[j])

\* C9 as stated: a last argument name=value of i(...) gives the reference
\* value, and the name stays, in its position, in the i sequence that is
\* colon-joined into the covariate variants; without "=" the reference is
\* none and the sequence is the arguments unchanged.
C9_ReferenceOriginal ==
    (pc = "built" /\ HasI)
    => IF Len(ILast) = 2
       THEN IHolds([IArgsIn EXCEPT ![Len(IArgsIn)] = ILast[1]], Val(ILast[2]))
       ELSE IHolds(IArgsIn, PyNone)

\* C9 (amended): a last argument name=value gives the reference value and
\* is removed whole (name and value) from the i sequence, which is the
\* arguments before it; without "=" the reference is none and the sequence
\* is the arguments unchanged.  The colon-join of the sequence is a token of
\* every covariate variant.
C9_Reference ==
    (pc = "built" /\ HasI)
    => IF Len(ILast) = 2
       THEN IHolds(SubSeq(IArgsIn, 1, Len(IArgsIn) - 1), Val(ILast[2]))
       ELSE IHolds(IArgsIn, PyNone)

\* i(c,d=1) followed by a switch: several variants, each with the token
C9_Witness ==
    /\ pc = "built"
    /\ HasI
    /\ Len(ILast) = 2
    /\ Len(self.covars_fml.v) >= 2

(***************************************************************************)
(* Claims about the dictionary builders                                    *)
(***************************************************************************)
\* depvar~variant, depvars the outer loop and variants the inner
Cross(depvars, variants) ==
    [n \in 1..(Len(depvars) * Len(variants)) |->
        depvars[((n - 1) \div Len(variants)) + 1] \o <<"~">>
        \o variants[((n - 1) % Len(variants)) + 1]]

\* the distinct elements of a list in first-seen order, and how often one occurs
FirstSeen(l) == SelectSeq([j \in 1..Len(l) |-> [at |-> j, x |-> l[j]]],
                          LAMBDA e : \A m \in 1..(e.at - 1) : l[m] # e.x)
Occurrences(l, x) == Cardinality({j \in 1..Len(l) : l[j] = x})

\* the flat dictionary holds, under every fevars variant, the cross product
FlatOk(d, variants) ==
    /\ {d[j].k : j \in 1..Len(d)}
         = {self.fevars_fml.v[j] : j \in 1..Len(self.fevars_fml.v)}
    /\ \A j \in 1..Len(d) :
          /\ Len(d[j].v) = Len(input.dep) * Len(variants)
          /\ d[j].v = Cross(input.dep, variants)

\* the regrouped dictionary maps, under every key, each depvar in first-seen
\* order to the variants: once, or when `counted` once per occurrence of the
\* depvar in the formula
GroupedOk(d2, variants, counted) ==
    \A j \in 1..Len(d2) :
        d2[j].v = [m \in 1..Len(FirstSeen(input.dep)) |->
                      [k |-> FirstSeen(input.dep)[m].x,
                       v |-> repeat(variants,
                                    IF counted
                                    THEN Occurrences(input.dep,
                                                     FirstSeen(input.dep)[m].x)
                                    ELSE 1)]]

DictsOk(counted) ==
    /\ self.fml_dict # Unset => FlatOk(self.fml_dict.v, self.covars_fml.v)
    /\ self.fml_dict_iv # Unset
         => FlatOk(self.fml_dict_iv.v, self.covars_first_stage_fml.v)
    /\ self.fml_dict2 # Unset
         => GroupedOk(self.fml_dict2.v, self.covars_fml.v, counted)
    /\ self.fml_dict2_iv # Unset
         => GroupedOk(self.fml_dict2_iv.v, self.covars_first_stage_fml.v, counted)

Slot(op, iv) ==
    CASE op = "get_fml_dict"        -> IF iv THEN "fml_dict_iv" ELSE "fml_dict"
      [] op = "_transform_fml_dict" -> IF iv THEN "fml_dict2_iv" ELSE "fml_dict2"
      [] op = "get_var_dict"        -> IF iv THEN "var_dict_iv" ELSE "var_dict"

\* C10: a builder call on a built object, failing or not, leaves the parsed
\* attributes unchanged, changes no dictionary but the one of its own name
\* and iv, changes nothing when it raises, and never changes a dictionary
\* that is already stored (a repeated call stores an equal value).
C10_Frame ==
    [][pc = "built"
       => /\ \A f \in ParsedFields : self'[f] = self[f]
          /\ \A f \in DictFields :
                self'[f] # self[f] => f = Slot(last'.op, last'.iv)
          /\ \A f \in DictFields : self[f] # Unset => self'[f] = self[f]
          /\ last'.raised # "None" => self' = self]_vars

\* a failing first-stage call on an object that already holds dictionaries
C10_Witness ==
    /\ pc = "built"
    /\ last.op = "_transform_fml_dict"
    /\ last.iv
    /\ last.raised = "AttributeError"
    /\ self.fml_dict # Unset
    /\ self.fml_dict2 # Unset
    /\ self.var_dict_iv # Unset

====
